---- MODULE Spec2Model ----
(***************************************************************************)
(* Model of two scripts of the repository:                                 *)
(*   .github/scripts/request_review.py  (CODEOWNERS-driven review routing) *)
(*   src/font/nerd_font_codegen.py      (switch-arm generator)             *)
(* Strings the scripts take apart (paths, owner tokens, team names) are    *)
(* sequences of one-character strings; logins are plain strings.           *)
(***************************************************************************)
EXTENDS Bags, FiniteSets, Integers, Sequences, TLC

VARIABLES
    \* the remote state the review script reads (fixed during a run)
    codeowners_text,   \* CODEOWNERS: sequence of lines, a line is its sequence of tokens
    pr_files,          \* file names of the pull request, as the API lists them
    pr_user,           \* login of the pull request's author
    teams,             \* team name -> [parent, members]
    \* the review script
    pc,                \* position of main()
    exit_status,       \* Running until the process ends, then its exit status
    fatal_error,       \* which fetch raised RequestFailed ("none" if none did)
    changed_files,     \* main: changed_files
    pr_author,         \* main: pr_author
    codeowners,        \* main: codeowners, an insertion-ordered dict
    file_owner,        \* owner found by the loop of main for each changed file
    owner_order,       \* iteration order of the set found_owners
    team_tasks,        \* position of each get_team_members coroutine
    member_lists,      \* result of each get_team_members coroutine
    review_tasks,      \* the request_review coroutines: [user, state]
    review_requests,   \* bag of logins for which a review-request call was issued
    run,               \* number of the current run of the script
    first_run_set,     \* logins requested by the first run (set once it is over)
    \* the code generator
    patch_sets,        \* input of generate_zig_switch_arms
    cg_pc,             \* position of the generator
    arms               \* the emitted arms: sequence of [ranges, key]

review_vars == <<codeowners_text, pr_files, pr_user, teams, pc, exit_status,
                 fatal_error, changed_files, pr_author, codeowners, file_owner,
                 owner_order, team_tasks, member_lists, review_tasks,
                 review_requests, run, first_run_set>>
codegen_vars == <<patch_sets, cg_pc, arms>>
vars == <<review_vars, codegen_vars>>

(***************************************************************************)
(* Bounds of the model                                                     *)
(***************************************************************************)
MaxLines == 2
MaxFiles == 3
MaxPatchSets == 2
MaxCp == 2

(***************************************************************************)
(* String helpers (str.startswith, str.lstrip, str.removeprefix)           *)
(***************************************************************************)
startswith(s, p) == Len(p) <= Len(s) /\ SubSeq(s, 1, Len(p)) = p

RECURSIVE lstrip(_, _)
lstrip(s, ch) ==
    IF s # <<>> /\ Head(s) = ch THEN lstrip(Tail(s), ch) ELSE s

removeprefix(s, p) ==
    IF startswith(s, p) THEN SubSeq(s, Len(p) + 1, Len(s)) ELSE s

Range(s) == {s[i] : i \in DOMAIN s}

(***************************************************************************)
(* Program constants of request_review.py                                  *)
(***************************************************************************)
ORG_PREFIX == <<"@","g","h","o","s","t","t","y","-","o","r","g","/">>
ALLOWED_PARENT_TEAM == "localization"
LowerCase == {"a","b","c","d","e","f","g","h","i","j","k","l","m",
              "n","o","p","q","r","s","t","u","v","w","x","y","z"}
UpperCase == {"A","B","C","D","E","F","G","H","I","J","K","L","M",
              "N","O","P","Q","R","S","T","U","V","W","X","Y","Z"}

\* LOCALIZATION_TEAM_NAME_PATTERN.fullmatch(team_name) is not None
is_localization_team(team_name) ==
    /\ Len(team_name) = 5
    /\ team_name[1] \in LowerCase /\ team_name[2] \in LowerCase
    /\ team_name[3] = "_"
    /\ team_name[4] \in UpperCase /\ team_name[5] \in UpperCase

Running == -1
NoParent == "None"
NoOwner == <<>>

(***************************************************************************)
(* The remote states the model ranges over                                 *)
(***************************************************************************)
fr_FR == <<"f","r","_","F","R">>
de_DE == <<"d","e","_","D","E">>
ja_JP == <<"j","a","_","J","P">>
core == <<"c","o","r","e">>

\* lines of a CODEOWNERS file, already split at white space; an entry has two
\* tokens, as the parser assumes ("all entries only list one owner")
CodeownersLines ==
    { << <<"/","a">>, ORG_PREFIX \o fr_FR >>,       \* /a   @ghostty-org/fr_FR
      << <<"a","/","b">>, ORG_PREFIX \o de_DE >>,   \* a/b  @ghostty-org/de_DE
      << <<"a">>, ORG_PREFIX \o de_DE >>,           \* a    @ghostty-org/de_DE
      << <<"/","c">>, ja_JP >>,                     \* /c   ja_JP
      << <<"/","c">>, ORG_PREFIX \o core >>,        \* /c   @ghostty-org/core
      << <<"#">>, <<"l","1","0","n">> >>,           \* # l10n
      << >> }                                       \* (empty line)

RECURSIVE SeqsUpTo(_, _)
SeqsUpTo(S, n) ==
    IF n = 0 THEN {<<>>}
    ELSE LET shorter == SeqsUpTo(S, n - 1)
         IN  shorter \cup {Append(s, x) : s \in shorter, x \in S}

\* the files a pull request can touch, in the order the API lists them
AllFiles == << <<"a","/","b","/","x">>, <<"a","/","x">>, <<"b","/","x">>,
              <<"c","/","x">> >>

RECURSIVE Pick(_, _)
Pick(s, keep) ==
    IF s = <<>> THEN <<>>
    ELSE LET rest == Pick(Tail(s), {i - 1 : i \in keep \ {1}})
         IN  IF 1 \in keep THEN <<Head(s)>> \o rest ELSE rest

FileLists ==
    {Pick(AllFiles, keep) : keep \in {k \in SUBSET DOMAIN AllFiles :
                                          Cardinality(k) <= MaxFiles}}

Logins == {"alice", "bob", "carol", "dave"}

TeamWorlds ==
    {[t \in {fr_FR, de_DE, ja_JP} |->
        CASE t = fr_FR -> [parent |-> ALLOWED_PARENT_TEAM, members |-> <<"alice", "bob">>]
          [] t = de_DE -> [parent |-> w[1], members |-> <<"bob", "carol">>]
          [] t = ja_JP -> [parent |-> w[2], members |-> <<"dave">>]]
     : w \in { <<ALLOWED_PARENT_TEAM, NoParent>>,
               <<"translators", NoParent>>,
               <<ALLOWED_PARENT_TEAM, ALLOWED_PARENT_TEAM>> }}

Authors == {"bob", "carol"}

(***************************************************************************)
(* request_review.py: pure parts                                           *)
(***************************************************************************)
\* faulty variant of log_fail: sys.exit(0) in place of sys.exit(1)
log_fail_exit_0(raised, die) ==
    IF ~raised THEN [outcome |-> "ok", status |-> Running]
    ELSE IF die THEN [outcome |-> "exit", status |-> 0]
    ELSE [outcome |-> "continue", status |-> Running]

\* faulty variant of log_fail: the die argument is ignored, every failure exits
log_fail_always_die(raised, die) ==
    IF ~raised THEN [outcome |-> "ok", status |-> Running]
    ELSE [outcome |-> "exit", status |-> 1]

\* with log_fail(message, die=...): what becomes of the block.  "ok": it did
\* not raise; "exit": sys.exit(status); "continue": the failure is logged and
\* swallowed.
log_fail(raised, die) ==
    IF ~raised THEN [outcome |-> "ok", status |-> Running]
    ELSE IF die THEN [outcome |-> "exit", status |-> 1]
    ELSE [outcome |-> "continue", status |-> Running]

\* codeowners[path] = owner on an insertion-ordered dict: an existing key keeps
\* its position and takes the new value, a new key goes to the end
dict_set(d, path, owner) ==
    IF \E i \in DOMAIN d : d[i].path = path
    THEN [i \in DOMAIN d |->
            IF d[i].path = path THEN [path |-> path, owner |-> owner] ELSE d[i]]
    ELSE Append(d, [path |-> path, owner |-> owner])

is_skipped_line(line) ==
    line = <<>> \/ (line[1] # <<>> /\ line[1][1] = "#")

\* the loop of fetch_and_parse_codeowners over content.splitlines()
RECURSIVE parse_codeowners(_, _)
parse_codeowners(lines, d) ==
    IF lines = <<>> THEN d
    ELSE LET line == Head(lines)
         IN  IF is_skipped_line(line) THEN parse_codeowners(Tail(lines), d)
             ELSE LET path == lstrip(line[1], "/")
                      owner == removeprefix(line[2], ORG_PREFIX)
                  IN  IF ~is_localization_team(owner)
                      THEN parse_codeowners(Tail(lines), d)
                      ELSE parse_codeowners(Tail(lines), dict_set(d, path, owner))

\* faulty variant of find_owner: the last matching item wins
RECURSIVE find_owner_last(_, _)
find_owner_last(file, d) ==
    IF d = <<>> THEN NoOwner
    ELSE IF startswith(file, d[Len(d)].path) THEN d[Len(d)].owner
    ELSE find_owner_last(file, SubSeq(d, 1, Len(d) - 1))

\* the inner loop of main: the first item of codeowners, in insertion order,
\* whose path the file starts with
RECURSIVE find_owner(_, _)
find_owner(file, d) ==
    IF d = <<>> THEN NoOwner
    ELSE IF startswith(file, Head(d).path) THEN Head(d).owner
    ELSE find_owner(file, Tail(d))

\* faulty variant of find_owners: break in place of continue for an unowned file
RECURSIVE find_owners_break(_, _)
find_owners_break(files, d) ==
    IF files = <<>> \/ find_owner(Head(files), d) = NoOwner THEN <<>>
    ELSE <<find_owner(Head(files), d)>> \o find_owners_break(Tail(files), d)

\* the outer loop of main: the owner found for each changed file (NoOwner when
\* the else branch of the inner loop is taken)
RECURSIVE find_owners(_, _)
find_owners(files, d) ==
    IF files = <<>> THEN <<>>
    ELSE <<find_owner(Head(files), d)>> \o find_owners(Tail(files), d)

\* faulty variant of has_allowed_parent: any parent team will do
has_allowed_parent_any(team) == team.parent # NoParent

\* team.parent and team.parent.slug == ALLOWED_PARENT_TEAM
has_allowed_parent(team) ==
    team.parent # NoParent /\ team.parent = ALLOWED_PARENT_TEAM

\* request_review: the test user == pr_author guards a log call only; no
\* branch of it leaves the function, so the request below it is never skipped
review_is_skipped(user, author) == FALSE

\* faulty variant of chain_from_iterable: the first member list only
chain_first_only(order, lists) ==
    IF order = <<>> THEN <<>> ELSE lists[Head(order)]

\* chain.from_iterable(member_lists), member_lists in the order of the tasks
RECURSIVE chain_from_iterable(_, _)
chain_from_iterable(order, lists) ==
    IF order = <<>> THEN <<>>
    ELSE lists[Head(order)] \o chain_from_iterable(Tail(order), lists)

\* the orders in which a set can be iterated
Orders(S) ==
    {s \in [1..Cardinality(S) -> S] : \A i, j \in DOMAIN s : s[i] = s[j] => i = j}

(***************************************************************************)
(* request_review.py: the run of main()                                    *)
(***************************************************************************)
remote == <<codeowners_text, pr_files, pr_user, teams>>
history == <<run, first_run_set>>

EmptyFn == [x \in {} |-> <<>>]

InitProgram ==
    /\ pc = "get_changed_files"
    /\ exit_status = Running
    /\ fatal_error = "none"
    /\ changed_files = <<>>
    /\ pr_author = ""
    /\ codeowners = <<>>
    /\ file_owner = <<>>
    /\ owner_order = <<>>
    /\ team_tasks = EmptyFn
    /\ member_lists = EmptyFn
    /\ review_tasks = <<>>
    /\ review_requests = EmptyBag

InitRemote ==
    /\ codeowners_text \in SeqsUpTo(CodeownersLines, MaxLines)
    /\ pr_files \in FileLists
    /\ pr_user \in Authors
    /\ teams \in TeamWorlds

CodegenIdle == patch_sets = <<>> /\ cg_pc = "idle" /\ arms = <<>>

Init ==
    /\ InitRemote
    /\ InitProgram
    /\ run = 1
    /\ first_run_set = {}
    /\ CodegenIdle

\* the process ends: sys.exit(status), or an exception nobody catches
Terminate(status, error) ==
    /\ pc' = "exited"
    /\ exit_status' = status
    /\ fatal_error' = error
    /\ UNCHANGED <<remote, history, codegen_vars, changed_files, pr_author,
                   codeowners, file_owner, owner_order, member_lists,
                   review_tasks, review_requests>>

\* what follows a with log_fail(...) block whose names are read afterwards:
\* a swallowed failure leaves them unbound and the read raises UnboundLocalError
AfterFetch(r, error, Continue, Failed) ==
    CASE r.outcome = "ok" -> Continue
      [] r.outcome = "exit" -> Terminate(r.status, error) /\ Failed
      [] r.outcome = "continue" -> Terminate(1, error) /\ Failed

\* changed_files = await get_changed_files(pr_number)
GetChangedFiles(raised) ==
    /\ pc = "get_changed_files"
    /\ AfterFetch(log_fail(raised, TRUE), "changed_files",
         /\ changed_files' = pr_files
         /\ pc' = "get_pr_author"
         /\ UNCHANGED <<remote, history, codegen_vars, exit_status, fatal_error,
                        pr_author, codeowners, file_owner, owner_order, team_tasks,
                        member_lists, review_tasks, review_requests>>,
         UNCHANGED team_tasks)

\* pr_author = await get_pr_author(pr_number)
GetPrAuthor(raised) ==
    /\ pc = "get_pr_author"
    /\ AfterFetch(log_fail(raised, TRUE), "pr_author",
         /\ pr_author' = pr_user
         /\ pc' = "fetch_codeowners"
         /\ UNCHANGED <<remote, history, codegen_vars, exit_status, fatal_error,
                        changed_files, codeowners, file_owner, owner_order,
                        team_tasks, member_lists, review_tasks, review_requests>>,
         UNCHANGED team_tasks)

\* codeowners = await fetch_and_parse_codeowners()
FetchAndParseCodeowners(raised) ==
    /\ pc = "fetch_codeowners"
    /\ AfterFetch(log_fail(raised, TRUE), "codeowners",
         /\ codeowners' = parse_codeowners(codeowners_text, <<>>)
         /\ pc' = "find_owners"
         /\ UNCHANGED <<remote, history, codegen_vars, exit_status, fatal_error,
                        changed_files, pr_author, file_owner, owner_order,
                        team_tasks, member_lists, review_tasks, review_requests>>,
         UNCHANGED team_tasks)

\* the loop over changed_files that fills found_owners, and the creation of
\* one get_team_members coroutine per found owner, in the set's iteration order
FindOwners ==
    /\ pc = "find_owners"
    /\ LET owners == find_owners(changed_files, codeowners)
           found_owners == Range(owners) \ {NoOwner}
       IN  /\ file_owner' = owners
           /\ owner_order' \in Orders(found_owners)
           /\ team_tasks' = [t \in found_owners |-> "fetch_team"]
           /\ member_lists' = [t \in found_owners |-> <<>>]
    /\ pc' = "gather_teams"
    /\ UNCHANGED <<remote, history, codegen_vars, exit_status, fatal_error,
                   changed_files, pr_author, codeowners, review_tasks,
                   review_requests>>

\* get_team_members: team = await ...async_get_by_name(ORG_NAME, team_name),
\* then the test of the parent team
FetchTeam(t, raised) ==
    /\ pc = "gather_teams"
    /\ t \in DOMAIN team_tasks
    /\ team_tasks[t] = "fetch_team"
    /\ raised \/ t \in DOMAIN teams
    /\ AfterFetch(log_fail(raised, TRUE), "team",
         /\ team_tasks' = [team_tasks EXCEPT ![t] =
                IF has_allowed_parent(teams[t]) THEN "fetch_members" ELSE "done"]
         /\ UNCHANGED <<remote, history, codegen_vars, pc, exit_status, fatal_error,
                        changed_files, pr_author, codeowners, file_owner,
                        owner_order, member_lists, review_tasks, review_requests>>,
         team_tasks' = [team_tasks EXCEPT ![t] = "failed"])

\* get_team_members: resp = await ...async_list_members_in_org(ORG_NAME, team_name)
FetchMembers(t, raised) ==
    /\ pc = "gather_teams"
    /\ t \in DOMAIN team_tasks
    /\ team_tasks[t] = "fetch_members"
    /\ AfterFetch(log_fail(raised, TRUE), "members",
         /\ member_lists' = [member_lists EXCEPT ![t] = teams[t].members]
         /\ team_tasks' = [team_tasks EXCEPT ![t] = "done"]
         /\ UNCHANGED <<remote, history, codegen_vars, pc, exit_status, fatal_error,
                        changed_files, pr_author, codeowners, file_owner,
                        owner_order, review_tasks, review_requests>>,
         team_tasks' = [team_tasks EXCEPT ![t] = "failed"])

\* the first gather returns; one request_review coroutine per listed user
GatherTeams ==
    /\ pc = "gather_teams"
    /\ \A t \in DOMAIN team_tasks : team_tasks[t] = "done"
    /\ LET users == chain_from_iterable(owner_order, member_lists)
       IN  review_tasks' = [i \in DOMAIN users |->
                               [user |-> users[i], state |-> "pending"]]
    /\ pc' = "gather_reviews"
    /\ UNCHANGED <<remote, history, codegen_vars, exit_status, fatal_error,
                   changed_files, pr_author, codeowners, file_owner, owner_order,
                   team_tasks, member_lists, review_requests>>

\* request_review(pr_number, user, pr_author)
RequestReview(i, raised) ==
    /\ pc = "gather_reviews"
    /\ i \in DOMAIN review_tasks
    /\ review_tasks[i].state = "pending"
    /\ LET user == review_tasks[i].user
           r == log_fail(raised, FALSE)
           Continue(state, issued) ==
               /\ review_tasks' = [review_tasks EXCEPT ![i].state = state]
               /\ review_requests' = review_requests (+) issued
               /\ UNCHANGED <<remote, history, codegen_vars, pc, exit_status,
                              fatal_error, changed_files, pr_author, codeowners,
                              file_owner, owner_order, team_tasks, member_lists>>
       IN  IF review_is_skipped(user, pr_author)
           THEN ~raised /\ Continue("skipped", EmptyBag)
           ELSE CASE r.outcome = "ok" -> Continue("ok", SetToBag({user}))
                  [] r.outcome = "continue" -> Continue("failed", SetToBag({user}))
                  [] r.outcome = "exit" ->
                        /\ pc' = "exited"
                        /\ exit_status' = r.status
                        /\ review_tasks' = [review_tasks EXCEPT ![i].state = "failed"]
                        /\ review_requests' = review_requests (+) SetToBag({user})
                        /\ UNCHANGED <<remote, history, codegen_vars, fatal_error,
                                       changed_files, pr_author, codeowners,
                                       file_owner, owner_order, team_tasks,
                                       member_lists>>

\* the second gather returns, main returns, asyncio.run returns
Finish ==
    /\ pc = "gather_reviews"
    /\ \A i \in DOMAIN review_tasks : review_tasks[i].state # "pending"
    /\ pc' = "done"
    /\ exit_status' = 0
    /\ UNCHANGED <<remote, history, codegen_vars, fatal_error, changed_files,
                   pr_author, codeowners, file_owner, owner_order, team_tasks,
                   member_lists, review_tasks, review_requests>>

Next ==
    \/ \E raised \in BOOLEAN : GetChangedFiles(raised)
    \/ \E raised \in BOOLEAN : GetPrAuthor(raised)
    \/ \E raised \in BOOLEAN : FetchAndParseCodeowners(raised)
    \/ FindOwners
    \/ \E t \in DOMAIN team_tasks, raised \in BOOLEAN : FetchTeam(t, raised)
    \/ \E t \in DOMAIN team_tasks, raised \in BOOLEAN : FetchMembers(t, raised)
    \/ GatherTeams
    \/ \E i \in DOMAIN review_tasks, raised \in BOOLEAN : RequestReview(i, raised)
    \/ Finish

Spec == Init /\ [][Next]_vars

(***************************************************************************)
(* Running the script a second time against the same remote state, with no *)
(* request failing                                                         *)
(***************************************************************************)
Rerun ==
    /\ pc = "done"
    /\ run = 1
    /\ run' = 2
    /\ first_run_set' = BagToSet(review_requests)
    /\ pc' = "get_changed_files"
    /\ exit_status' = Running
    /\ fatal_error' = "none"
    /\ changed_files' = <<>>
    /\ pr_author' = ""
    /\ codeowners' = <<>>
    /\ file_owner' = <<>>
    /\ owner_order' = <<>>
    /\ team_tasks' = EmptyFn
    /\ member_lists' = EmptyFn
    /\ review_tasks' = <<>>
    /\ review_requests' = EmptyBag
    /\ UNCHANGED <<remote, codegen_vars>>

NextRerun ==
    \/ GetChangedFiles(FALSE)
    \/ GetPrAuthor(FALSE)
    \/ FetchAndParseCodeowners(FALSE)
    \/ FindOwners
    \/ \E t \in DOMAIN team_tasks : FetchTeam(t, FALSE)
    \/ \E t \in DOMAIN team_tasks : FetchMembers(t, FALSE)
    \/ GatherTeams
    \/ \E i \in DOMAIN review_tasks : RequestReview(i, FALSE)
    \/ Finish
    \/ Rerun

SpecRerun == Init /\ [][NextRerun]_vars

(***************************************************************************)
(* What the remote state determines, stated on the CODEOWNERS lines        *)
(***************************************************************************)
LinePath(i) == lstrip(codeowners_text[i][1], "/")
LineOwner(i) == removeprefix(codeowners_text[i][2], ORG_PREFIX)

\* the lines that are entries and whose owner has the form of a locale team
Retained ==
    {i \in DOMAIN codeowners_text :
        /\ ~is_skipped_line(codeowners_text[i])
        /\ is_localization_team(LineOwner(i))}

Matching(file) == {i \in Retained : startswith(file, LinePath(i))}

Min(S) == CHOOSE x \in S : \A y \in S : x <= y
Max(S) == CHOOSE x \in S : \A y \in S : x >= y

\* owner of the first retained line whose prefix the file starts with
FirstMatchOwner(file) ==
    IF Matching(file) = {} THEN NoOwner ELSE LineOwner(Min(Matching(file)))

\* owner of the last retained line that has the path of that first line
FirstPrefixOwner(file) ==
    IF Matching(file) = {} THEN NoOwner
    ELSE LET first == Min(Matching(file))
         IN  LineOwner(Max({j \in Retained : LinePath(j) = LinePath(first)}))

Eligible(t) ==
    /\ t \in DOMAIN teams
    /\ is_localization_team(t)
    /\ teams[t].parent = ALLOWED_PARENT_TEAM

Calls(u) == CopiesIn(u, review_requests)
Terminated == pc \in {"done", "exited"}
OwnersFound == pc \in {"gather_teams", "gather_reviews", "done"}

(***************************************************************************)
(* Claims                                                                  *)
(***************************************************************************)
\* C1: no review-request call is ever issued whose reviewer is the author of
\* the pull request.
C1_AuthorNeverRequested == pr_author = "" \/ Calls(pr_author) = 0

\* C2: each login receives at most one review-request call in a run, also when
\* it is a member of several owning teams.
C2_AtMostOneCallPerLogin == \A u \in Logins : Calls(u) <= 1

\* C3 (as stated): the owner assigned to each changed file is the owner of the
\* first retained CODEOWNERS entry, in file order, whose prefix the file starts
\* with, and no owner when there is none.
C3_FirstRetainedEntryWins ==
    OwnersFound =>
        /\ Len(file_owner) = Len(changed_files)
        /\ \A k \in DOMAIN file_owner :
              file_owner[k] = FirstMatchOwner(changed_files[k])

\* C3 (amended): the prefix that wins is the one of the first retained entry, in
\* file order, that the file starts with (never a later, longer one), and the
\* owner assigned is the one of the last retained entry with that same prefix;
\* a file matching no retained prefix gets no owner.
C3_FirstPrefixWins ==
    OwnersFound =>
        /\ Len(file_owner) = Len(changed_files)
        /\ \A k \in DOMAIN file_owner :
              file_owner[k] = FirstPrefixOwner(changed_files[k])

\* a file with two retained matching lines, the later one longer and owned by
\* another team, was assigned the owner of the earlier one
C3_Witness ==
    /\ pc = "done"
    /\ \E k \in DOMAIN file_owner : \E i, j \in Matching(changed_files[k]) :
          /\ i < j
          /\ Len(LinePath(j)) > Len(LinePath(i))
          /\ LineOwner(i) # LineOwner(j)
          /\ file_owner[k] = LineOwner(i)
    /\ \E k \in DOMAIN file_owner : file_owner[k] = NoOwner

\* C4: every login that is requested belongs to a team that owns a retained
\* entry, whose name has the locale form and whose parent is the allowed one;
\* a team with another parent or none contributes no reviewer, and no entry
\* with an owner of another form is retained.
C4_OnlyEligibleTeamsContribute ==
    /\ \A i \in DOMAIN codeowners : is_localization_team(codeowners[i].owner)
    /\ \A t \in DOMAIN member_lists :
          teams[t].parent # ALLOWED_PARENT_TEAM => member_lists[t] = <<>>
    /\ \A u \in BagToSet(review_requests) :
          \E t \in DOMAIN teams :
              /\ Eligible(t)
              /\ \E i \in Retained : LineOwner(i) = t
              /\ u \in Range(teams[t].members)

\* a finished run in which reviews were requested and one of the owning teams
\* had a parent other than the allowed one or none
C4_Witness ==
    /\ pc = "done"
    /\ review_requests # EmptyBag
    /\ \E t \in DOMAIN team_tasks : teams[t].parent # ALLOWED_PARENT_TEAM

\* C5 (as stated): a failed fetch for one team does not abort the others: when
\* the run is over, every other owning team's list was obtained and its
\* members were requested.
C5_TeamFailureDoesNotAbort ==
    (Terminated /\ fatal_error \in {"team", "members"}) =>
        \A t \in DOMAIN team_tasks :
            team_tasks[t] # "failed" =>
                /\ team_tasks[t] = "done"
                /\ \A u \in Range(member_lists[t]) \ {pr_author} : Calls(u) >= 1

\* C5 (amended): a failed fetch for one team (metadata or member list) is fatal:
\* the process exits with status 1 and no review-request call is issued in
\* that run, not even for teams whose member lists had been obtained.
C5_TeamFailureIsFatal ==
    fatal_error \in {"team", "members"} =>
        /\ pc = "exited"
        /\ exit_status = 1
        /\ review_tasks = <<>>
        /\ review_requests = EmptyBag

\* one team's fetch failed after another team's members had been obtained
C5_Witness ==
    /\ fatal_error \in {"team", "members"}
    /\ \E t, o \in DOMAIN team_tasks :
          /\ team_tasks[t] = "failed"
          /\ team_tasks[o] = "done"
          /\ member_lists[o] # <<>>

\* C6: a failed review-request call is not fatal: the process does not exit
\* with status 1 because of it, and when the run is over every request_review
\* coroutine has run and each candidate login other than the author has had as
\* many calls issued as the candidate list names it.
C6_ReviewFailureNotFatal ==
    /\ (\E i \in DOMAIN review_tasks : review_tasks[i].state = "failed") =>
          (pc # "exited" /\ exit_status # 1)
    /\ pc = "done" =>
          /\ exit_status = 0
          /\ \A i \in DOMAIN review_tasks : review_tasks[i].state \in {"ok", "failed"}
          /\ \A u \in Logins \ {pr_author} :
                Calls(u) = Cardinality({i \in DOMAIN review_tasks :
                                           review_tasks[i].user = u})

\* a finished run in which one call failed and another, issued after the
\* failure or before it, succeeded
C6_Witness ==
    /\ pc = "done"
    /\ \E i, j \in DOMAIN review_tasks :
          /\ review_tasks[i].state = "failed"
          /\ review_tasks[j].state = "ok"
          /\ review_tasks[i].user # review_tasks[j].user

\* C7: a failed fetch of the changed files, of the author or of CODEOWNERS ends
\* the process with status 1 at that point; no team is fetched and no review
\* is requested in that run.
C7_FetchFailureIsFatal ==
    fatal_error \in {"changed_files", "pr_author", "codeowners"} =>
        /\ pc = "exited"
        /\ exit_status = 1
        /\ file_owner = <<>>
        /\ team_tasks = EmptyFn
        /\ review_tasks = <<>>
        /\ review_requests = EmptyBag

\* the CODEOWNERS fetch failed after the two fetches before it succeeded
C7_Witness ==
    /\ fatal_error = "codeowners"
    /\ pc = "exited"
    /\ changed_files # <<>>
    /\ pr_author # ""

\* C8: in a run where no fetch fails, every member, other than the author, of
\* every team that owns a changed file and has the allowed parent receives a
\* review-request call.
C8_EveryOwnerMemberRequested ==
    pc = "done" =>
        \A k \in DOMAIN pr_files :
            LET t == FirstPrefixOwner(pr_files[k])
            IN  (t # NoOwner /\ Eligible(t)) =>
                    \A u \in Range(teams[t].members) \ {pr_user} : Calls(u) >= 1

\* the example: fr_FR owns a changed file, the author is carol, alice and bob
\* are requested
C8_Witness ==
    /\ pc = "done"
    /\ pr_user = "carol"
    /\ \E k \in DOMAIN pr_files : FirstPrefixOwner(pr_files[k]) = fr_FR
    /\ Calls("alice") >= 1
    /\ Calls("bob") >= 1

\* C9: a second run against the same remote state, with no failure, requests
\* the same set of logins as the first, whatever the iteration order of the
\* found owners and the interleaving of the concurrent calls.
C9_SecondRunSameSet ==
    (run = 2 /\ pc = "done") => BagToSet(review_requests) = first_run_set

\* a second run is over, with two owning teams and several logins requested
C9_Witness ==
    /\ run = 2
    /\ pc = "done"
    /\ Len(owner_order) >= 2
    /\ Cardinality(first_run_set) >= 3

(***************************************************************************)
(* nerd_font_codegen.py                                                    *)
(* A PatchSetAttributes dict is the record [default, ints]: the entry of   *)
(* its key "default" and the function from its integer keys to entries.    *)
(* Floats are integers.                                                     *)
(***************************************************************************)
NoneValue == "None"

get(dict, key, default) == IF key \in DOMAIN dict THEN dict[key] ELSE default

parse_alignment(val) ==
    CASE val = "l" -> ".start"
      [] val = "r" -> ".end"
      [] val = "c" -> ".center"
      [] val = "" -> NoneValue
      [] OTHER -> ".none"

EmptyParams == [p \in {} |-> 0]

attr_key(attr) ==
    LET params == get(attr, "params", EmptyParams)
    IN  << parse_alignment(get(attr, "align", "")),
           parse_alignment(get(attr, "valign", "")),
           get(attr, "stretch", ""),
           get(params, "overlap", 0),
           get(params, "xy-ratio", -1),
           get(params, "ypadding", 0) >>

\* sorted(codepoints)
RECURSIVE insert_sorted(_, _)
insert_sorted(s, x) ==
    IF s = <<>> THEN <<x>>
    ELSE IF x < Head(s) THEN <<x>> \o s
    ELSE <<Head(s)>> \o insert_sorted(Tail(s), x)

RECURSIVE sorted(_)
sorted(s) == IF s = <<>> THEN <<>> ELSE insert_sorted(sorted(Tail(s)), Head(s))

\* faulty variant of coalesce_loop: the append after the loop is missing
RECURSIVE coalesce_loop_no_last(_, _, _, _)
coalesce_loop_no_last(rest, start, prev, ranges) ==
    IF rest = <<>> THEN ranges
    ELSE IF Head(rest) = prev + 1
         THEN coalesce_loop_no_last(Tail(rest), start, Head(rest), ranges)
         ELSE coalesce_loop_no_last(Tail(rest), Head(rest), Head(rest),
                                    Append(ranges, <<start, prev>>))

\* the loop of coalesce_codepoints_to_ranges and the append that follows it
RECURSIVE coalesce_loop(_, _, _, _)
coalesce_loop(rest, start, prev, ranges) ==
    IF rest = <<>> THEN Append(ranges, <<start, prev>>)
    ELSE IF Head(rest) = prev + 1
         THEN coalesce_loop(Tail(rest), start, Head(rest), ranges)
         ELSE coalesce_loop(Tail(rest), Head(rest), Head(rest),
                            Append(ranges, <<start, prev>>))

coalesce_codepoints_to_ranges(codepoints) ==
    LET cps == sorted(codepoints)
    IN  IF cps = <<>> THEN <<>>     \* next(cp_iter) raises StopIteration, suppressed
        ELSE coalesce_loop(Tail(cps), Head(cps), Head(cps), <<>>)

\* entries[cp] = attr on an insertion-ordered dict
entries_set(entries, cp, attr) ==
    IF \E i \in DOMAIN entries : entries[i].cp = cp
    THEN [i \in DOMAIN entries |->
            IF entries[i].cp = cp THEN [cp |-> cp, attr |-> attr] ELSE entries[i]]
    ELSE Append(entries, [cp |-> cp, attr |-> attr])

\* for cp in range(first, last + 1): entries[cp] = attr
RECURSIVE entries_set_range(_, _, _, _)
entries_set_range(entries, first, last, attr) ==
    IF first > last THEN entries
    ELSE entries_set_range(entries_set(entries, first, attr), first + 1, last, attr)

\* entries |= {k: v for k, v in attributes.items() if isinstance(k, int)}
RECURSIVE entries_update(_, _, _)
entries_update(entries, ints, keys) ==
    IF keys = {} THEN entries
    ELSE LET k == CHOOSE x \in keys : \A y \in keys : x <= y
         IN  entries_update(entries_set(entries, k, ints[k]), ints, keys \ {k})

\* the first loop of generate_zig_switch_arms
RECURSIVE collect_entries(_, _)
collect_entries(sets, entries) ==
    IF sets = <<>> THEN entries
    ELSE LET entry == Head(sets)
             attributes == entry.Attributes
             ranged == entries_set_range(entries, entry.SymStart, entry.SymEnd,
                                         attributes.default)
         IN  collect_entries(Tail(sets),
                 entries_update(ranged, attributes.ints, DOMAIN attributes.ints))

\* grouped[attr_key(attr)].append(cp) on a defaultdict(list)
grouped_append(grouped, key, cp) ==
    IF \E i \in DOMAIN grouped : grouped[i].key = key
    THEN [i \in DOMAIN grouped |->
            IF grouped[i].key = key
            THEN [key |-> key, codepoints |-> Append(grouped[i].codepoints, cp)]
            ELSE grouped[i]]
    ELSE Append(grouped, [key |-> key, codepoints |-> <<cp>>])

RECURSIVE group_entries(_, _)
group_entries(entries, grouped) ==
    IF entries = <<>> THEN grouped
    ELSE group_entries(Tail(entries),
             grouped_append(grouped, attr_key(Head(entries).attr), Head(entries).cp))

\* the order of lists of integers
RECURSIVE list_less(_, _)
list_less(a, b) ==
    IF b = <<>> THEN FALSE
    ELSE IF a = <<>> THEN TRUE
    ELSE IF Head(a) # Head(b) THEN Head(a) < Head(b)
    ELSE list_less(Tail(a), Tail(b))

\* sorted(grouped.values())
RECURSIVE insert_list(_, _)
insert_list(s, x) ==
    IF s = <<>> THEN <<x>>
    ELSE IF list_less(x, Head(s)) THEN <<x>> \o s
    ELSE <<Head(s)>> \o insert_list(Tail(s), x)

RECURSIVE sorted_lists(_)
sorted_lists(s) ==
    IF s = <<>> THEN <<>> ELSE insert_list(sorted_lists(Tail(s)), Head(s))

entries_get(entries, cp) ==
    (CHOOSE e \in Range(entries) : e.cp = cp).attr

\* emit_zig_entry_multikey: the keys of the arm and the attributes of its value
emit_zig_entry_multikey(codepoints, attr) ==
    [keys |-> coalesce_codepoints_to_ranges(codepoints), key |-> attr_key(attr)]

\* generate_zig_switch_arms after del entries[0]
switch_arms(entries) ==
    LET grouped == group_entries(entries, <<>>)
        lists == sorted_lists([i \in DOMAIN grouped |-> grouped[i].codepoints])
    IN  [i \in DOMAIN lists |->
            emit_zig_entry_multikey(lists[i], entries_get(entries, lists[i][1]))]

\* del entries[0]
entries_del(entries, cp) ==
    LET keep == {i \in DOMAIN entries : entries[i].cp # cp}
    IN  Pick(entries, keep)

(***************************************************************************)
(* The patch sets the model ranges over                                    *)
(***************************************************************************)
AttrStart == [align |-> "l", valign |-> "c", stretch |-> "pa",
              params |-> [overlap |-> 0]]
AttrPlain == [align |-> "x", valign |-> "c", stretch |-> "pa",
              params |-> EmptyParams]
\* another entry with the attr_key of AttrPlain
AttrPlainToo == [align |-> "y", valign |-> "c", stretch |-> "pa",
                 params |-> [ypadding |-> 0]]

NoInts == [cp \in {} |-> AttrPlain]

\* the ranges SymStart..SymEnd within 0..MaxCp, and the empty range 1..0
SymRanges ==
    {r \in (0..MaxCp) \X (0..MaxCp) : r[1] <= r[2] \/ r = <<1, 0>>}

PatchSets ==
    {[SymStart |-> r[1], SymEnd |-> r[2],
      Attributes |-> [default |-> d, ints |-> o]] :
        r \in SymRanges, d \in {AttrStart, AttrPlain},
        o \in {NoInts} \cup {[cp \in {k} |-> AttrPlainToo] : k \in {1, MaxCp + 1}}}

InitCodegen ==
    /\ patch_sets \in SeqsUpTo(PatchSets, MaxPatchSets)
    /\ cg_pc = "start"
    /\ arms = <<>>
    /\ codeowners_text = <<>>
    /\ pr_files = <<>>
    /\ pr_user = "bob"
    /\ teams = EmptyFn
    /\ InitProgram
    /\ run = 1
    /\ first_run_set = {}

\* generate_zig_switch_arms(patch_sets)
GenerateZigSwitchArms ==
    /\ cg_pc = "start"
    /\ LET entries == collect_entries(patch_sets, <<>>)
       IN  IF \E i \in DOMAIN entries : entries[i].cp = 0
           THEN /\ arms' = switch_arms(entries_del(entries, 0))
                /\ cg_pc' = "done"
           ELSE /\ arms' = arms          \* del entries[0] raises KeyError
                /\ cg_pc' = "crashed"
    /\ UNCHANGED <<patch_sets, review_vars>>

NextCodegen == GenerateZigSwitchArms

SpecCodegen == InitCodegen /\ [][NextCodegen]_vars

\* the attributes a codepoint ends with: those of the last patch set that has
\* it in its range or among its integer keys, the integer key first
Has(ps, cp) ==
    cp \in ps.SymStart..ps.SymEnd \/ cp \in DOMAIN ps.Attributes.ints

Covered ==
    {cp \in -1..(MaxCp + 2) : \E i \in DOMAIN patch_sets : Has(patch_sets[i], cp)}

FinalAttr(cp) ==
    LET ps == patch_sets[Max({i \in DOMAIN patch_sets : Has(patch_sets[i], cp)})]
    IN  IF cp \in DOMAIN ps.Attributes.ints THEN ps.Attributes.ints[cp]
        ELSE ps.Attributes.default

InArm(arm, cp) == \E r \in Range(arm.keys) : r[1] <= cp /\ cp <= r[2]

\* C10: the emitted arms map every covered codepoint other than 0 to exactly
\* one arm and no other codepoint to any; the ranges of an arm are ascending,
\* disjoint, not adjacent, and cover exactly the codepoints of its group.
C10_ArmsPartitionCodepoints ==
    cg_pc = "done" =>
        /\ \A cp \in Covered \ {0} :
              Cardinality({i \in DOMAIN arms : InArm(arms[i], cp)}) = 1
        /\ \A cp \in (-1..(MaxCp + 2)) \ (Covered \ {0}) :
              \A i \in DOMAIN arms : ~InArm(arms[i], cp)
        /\ \A i \in DOMAIN arms :
              /\ arms[i].keys # <<>>
              /\ \A j \in DOMAIN arms[i].keys : arms[i].keys[j][1] <= arms[i].keys[j][2]
              /\ \A j \in 1..(Len(arms[i].keys) - 1) :
                    arms[i].keys[j][2] + 1 < arms[i].keys[j + 1][1]
              /\ \A cp \in -1..(MaxCp + 2) :
                    InArm(arms[i], cp) <=>
                        (cp \in Covered \ {0} /\ attr_key(FinalAttr(cp)) = arms[i].key)

\* two arms, one of them with two ranges, from two overlapping patch sets
C10_Witness ==
    /\ cg_pc = "done"
    /\ Len(arms) = 2
    /\ \E i \in DOMAIN arms : Len(arms[i].keys) = 2
    /\ Len(patch_sets) = 2
    /\ \E cp \in 1..MaxCp : Has(patch_sets[1], cp) /\ Has(patch_sets[2], cp)
====
